---- MODULE Spec2Model ----
(***************************************************************************)
(* Model of the room hub of bookedup-speed-quiz: the quiz catalog and the  *)
(* room of app/room_manager.py, and the /ws websocket handler of           *)
(* app/main.py (handshake, message loop, disconnect and error handling).   *)
(*                                                                         *)
(* Python values are modelled as follows.                                  *)
(*   dict         a sequence of <<key, value>> pairs in insertion order    *)
(*   list         a sequence; Python index i is position i + 1             *)
(*   None         NoQuiz for a quiz id, absence of the key in a message    *)
(*   JSON message a record; a key the client left out is not in its DOMAIN *)
(*   time         int(time.time()*1000), the variable now, in milliseconds *)
(* One room of the registry is modelled; rooms share nothing but the       *)
(* catalog. A handler is one step: from one receive_json of a connection   *)
(* to its next, with no other handler in between. Of a question only id,   *)
(* answer and timeLimit are kept, of a payload the fields that depend on   *)
(* the room.                                                               *)
(***************************************************************************)
EXTENDS Integers, Sequences, FiniteSets

VARIABLES
    now,        \* int(time.time()*1000)
    quizzes,    \* RoomManager.quizzes: dict quiz id -> Quiz
    pending,    \* rows a running load_quizzes has still to read
    room,       \* the Room
    conn,       \* where each connection's ws() coroutine is
    out,        \* the send_json calls of the step just taken, in order
    ttl,        \* the time limit the last successful host:start_question used
    steps,      \* how many steps the run has taken
    event,      \* the event the step just taken handled: its connection and type
    rooms,      \* RoomManager.rooms beside room: dict code -> Room
    created,    \* the code of the room the last create_room returned, "" for none
    scored,     \* the last call of score_answer: its arguments and its result
    sending,    \* per connection, the send_json calls its suspended handler has still to make
    delivered   \* the send_json calls made one await at a time, in order

vars ==
    <<now, quizzes, pending, room, conn, out, ttl, steps, event, rooms, created, scored,
      sending, delivered>>

---------------------------------------------------------------------------
\* Bounds of the model.

NumConns == 3
MaxTicks == 3
MaxIndex == 3
MaxCredits == 2
MaxSteps == 6
NumCodes == 5
MaxDraws == 3
MaxLimit == 50
MaxRows == 3
MaxBegun == 5
MaxQuizId == 3

Conns == 1..NumConns

---------------------------------------------------------------------------
\* Python dict and list helpers.

Max(a, b) == IF a >= b THEN a ELSE b

Keys(d) == {d[i][1] : i \in DOMAIN d}

Values(d) == [i \in DOMAIN d |-> d[i][2]]

Has(d, k) == k \in Keys(d)

Get(d, k) == d[CHOOSE i \in DOMAIN d : d[i][1] = k][2]

\* d[k] = v: an existing key keeps its place, a new key goes last.
Put(d, k, v) ==
    IF Has(d, k)
    THEN [i \in DOMAIN d |-> IF d[i][1] = k THEN <<k, v>> ELSE d[i]]
    ELSE Append(d, <<k, v>>)

\* del d[k]
Del(d, k) == SelectSeq(d, LAMBDA e : e[1] # k)

\* list.remove(x): the first occurrence goes.
Remove(s, x) ==
    IF \E i \in DOMAIN s : s[i] = x
    THEN LET p == CHOOSE i \in DOMAIN s : s[i] = x /\ \A j \in 1..(i-1) : s[j] # x
         IN  SubSeq(s, 1, p - 1) \o SubSeq(s, p + 1, Len(s))
    ELSE s

\* The position of Python index i in a list of n elements, 0 for IndexError:
\* a negative index counts from the end.
ListIndex(n, i) ==
    IF 0 <= i /\ i < n THEN i + 1
    ELSE IF -n <= i /\ i < 0 THEN n + i + 1
    ELSE 0

---------------------------------------------------------------------------
\* Dataclasses and the catalog (room_manager.py).

NoQuiz == 0
DefaultTimeLimit == 20000

Question(id, answer, timeLimit) ==
    [id |-> id, answer |-> answer, timeLimit |-> timeLimit]

Team(id, name, score) == [id |-> id, name |-> name, score |-> score]

Answer(team_id, question_id, option, submitted_at, ms_remaining) ==
    [team_id |-> team_id, question_id |-> question_id, option |-> option,
     submitted_at |-> submitted_at, ms_remaining |-> ms_remaining]

\* The rows of the quizzes table, decoded: one quiz of two questions, the
\* second without an id and with a time limit of its own.
StoreRows ==
    << [id |-> 1, questions |-> << [id |-> "q1", answer |-> 1],
                                   [answer |-> 0,
                                    timeLimit |-> DefaultTimeLimit \div 2] >>] >>

\* f"q{i+1}" for the i-th question (counted from 0) of a quiz.
SynthId == <<"q1", "q2", "q3">>

\* The Quiz load_quizzes builds from one row.
QuizOfRow(r) ==
    [id |-> r.id,
     questions |->
        [i \in DOMAIN r.questions |->
            LET q == r.questions[i]
            IN  Question(IF "id" \in DOMAIN q THEN q.id ELSE SynthId[i],
                         q.answer,
                         IF "timeLimit" \in DOMAIN q THEN q.timeLimit
                         ELSE DefaultTimeLimit)]]

RECURSIVE LoadRows(_, _)
LoadRows(d, rows) ==
    IF rows = <<>> THEN d
    ELSE LoadRows(Put(d, Head(rows).id, QuizOfRow(Head(rows))), Tail(rows))

\* dict.get: the value, or None.
None == [none |-> TRUE]

\* dict.get on a catalog.
get_quiz_in(catalog, quiz_id) ==
    IF Has(catalog, quiz_id) THEN Get(catalog, quiz_id) ELSE None

get_quiz(quiz_id) == get_quiz_in(quizzes, quiz_id)

get_room(room_id) == IF room_id = room.id THEN room ELSE None

\* Python floats are IEEE 754 doubles. A positive double is modelled as
\* [e, m]: m is its 53-bit significand, most significant bit first, m[1] = 1,
\* and e the exponent of m[1]: the value is the sum of m[i] * 2^(e + 1 - i).
\* Every operation rounds its exact result to nearest, ties to even.
Precision == 53

RECURSIVE Pow2(_)
Pow2(n) == IF n = 0 THEN 1 ELSE 2 * Pow2(n - 1)

\* The binary digits of n > 0, most significant first; <<>> for 0.
RECURSIVE BinaryOf(_)
BinaryOf(n) == IF n = 0 THEN <<>> ELSE Append(BinaryOf(n \div 2), n % 2)

\* The integer a sequence of binary digits spells.
RECURSIVE IntegerOf(_)
IntegerOf(bits) ==
    IF bits = <<>> THEN 0
    ELSE 2 * IntegerOf(SubSeq(bits, 1, Len(bits) - 1)) + bits[Len(bits)]

\* n zeros, none for n <= 0.
Zeros(n) == IF n <= 0 THEN <<>> ELSE [i \in 1..n |-> 0]

\* bits with zeros in front, n digits in all.
Pad(bits, n) == Zeros(n - Len(bits)) \o bits

\* m + 1 in the last place: the last 0 becomes 1 and the 1s after it 0;
\* over = 1 when there is no 0 (the carry runs out at the top).
Increment(m) ==
    IF \A i \in DOMAIN m : m[i] = 1 THEN [m |-> [i \in DOMAIN m |-> 0], over |-> 1]
    ELSE LET p == CHOOSE i \in DOMAIN m :
                      m[i] = 0 /\ \A j \in (i + 1)..Len(m) : m[j] = 1
         IN  [m |-> [i \in DOMAIN m |-> IF i < p THEN m[i] ELSE IF i = p THEN 1 ELSE 0],
              over |-> 0]

\* The double nearest to the exact value whose digits are bits (bits[1] = 1,
\* of exponent e; a last digit may stand for all the digits below it).
RoundToDouble(e, bits) ==
    LET padded == bits \o Zeros(Precision + 1 - Len(bits))
        keep == SubSeq(padded, 1, Precision)
        guard == padded[Precision + 1]
        sticky == \E i \in (Precision + 2)..Len(padded) : padded[i] = 1
        up == IF guard = 1 /\ (sticky \/ keep[Precision] = 1)
              THEN Increment(keep) ELSE [m |-> keep, over |-> 0]
    IN  IF up.over = 1
        THEN [e |-> e + 1, m |-> <<1>> \o Zeros(Precision - 1)]
        ELSE [e |-> e, m |-> up.m]

\* n digits of rem / d after the point (0 <= rem < d), by long division
\* (Block digits at a time), and the remainder left.
Block == 8

RECURSIVE Quotient(_, _, _)
Quotient(rem, d, n) ==
    IF n = 0 THEN [bits |-> <<>>, rem |-> rem]
    ELSE LET k == IF n < Block THEN n ELSE Block
             rest == Quotient((rem * Pow2(k)) % d, d, n - k)
         IN  [bits |-> Pad(BinaryOf((rem * Pow2(k)) \div d), k) \o rest.bits,
              rem |-> rest.rem]

\* The zeros between the point and the first 1 of rem / d (0 < rem < d).
RECURSIVE LeadingZeros(_, _)
LeadingZeros(rem, d) ==
    IF 2 * rem >= d THEN 0 ELSE 1 + LeadingZeros(2 * rem, d)

\* a / b for integers 0 < a < b: int / int is the correctly rounded quotient.
FloatDiv(a, b) ==
    LET z == LeadingZeros(a, b)
        q == Quotient(a * Pow2(z) , b, Precision + 1)
    IN  RoundToDouble(-(z + 1), q.bits \o <<IF q.rem = 0 THEN 0 ELSE 1>>)

\* 0.5 * x: exact.
FloatHalf(x) == [x EXCEPT !.e = @ - 1]

\* The sum with the 0.5 left out.
FloatAddHalf_Forgotten(y) == y

\* 0.5 + y for 0 < y < 0.5: the digit of 0.5, then the digits of y from the
\* place of 0.25 on.
FloatAddHalf(y) ==
    RoundToDouble(-1, <<1>> \o Zeros(-2 - y.e) \o y.m)

\* bits * c + carry for a small integer c, as binary digits (Block digits at
\* a time, from the last).
RECURSIVE TimesSmall(_, _, _)
TimesSmall(bits, c, carry) ==
    IF bits = <<>> THEN BinaryOf(carry)
    ELSE LET k == IF Len(bits) < Block THEN Len(bits) ELSE Block
             t == c * IntegerOf(SubSeq(bits, Len(bits) - k + 1, Len(bits))) + carry
         IN  TimesSmall(SubSeq(bits, 1, Len(bits) - k), c, t \div Pow2(k))
             \o Pad(BinaryOf(t % Pow2(k)), k)

\* c * x for a small integer c > 0.
FloatTimes(c, x) ==
    LET product == TimesSmall(x.m, c, 0)
    IN  RoundToDouble(x.e + Len(product) - Precision, product)

\* int(x) for x >= 1: the digits before the point.
FloatInt(x) == IntegerOf(SubSeq(x.m, 1, x.e + 1))

\* int(100 * (0.5 + 0.5 * max(0.0, min(1.0, remaining_ms / max(1, total_ms))))):
\* the fraction is 0.0 or 1.0 at and beyond the ends, where every operation is
\* exact, and a rounded quotient in between.
score_answer(is_correct, total_ms, remaining_ms) ==
    IF ~is_correct THEN 0
    ELSE LET total == Max(1, total_ms)
         IN  IF remaining_ms <= 0 THEN 50
             ELSE IF remaining_ms >= total THEN 100
             ELSE FloatInt(FloatTimes(100, FloatAddHalf(FloatHalf(
                      FloatDiv(remaining_ms, total)))))

ensure_answer_bucket(answers, qid) ==
    IF Has(answers, qid) THEN answers ELSE Put(answers, qid, <<>>)

\* The connections of the room in the order broadcast goes through them.
Attached(r) ==
    r.host_connections
    \o [i \in DOMAIN r.team_connections |-> r.team_connections[i][2]]
    \o r.display_connections

\* A broadcast that a failed send ends: nothing is sent after the first
\* connection that is not open.
broadcast_StopsAtFailure(r, payload) ==
    LET to == Attached(r)
        failed == {i \in DOMAIN to : conn[to[i]] # "open"}
        last == IF failed = {} THEN Len(to)
                ELSE CHOOSE i \in failed : \A j \in failed : i <= j
    IN  [i \in 1..last |-> [to |-> to[i], msg |-> payload]]

\* The send_json calls of broadcast(room, payload), in order.
broadcast(r, payload) ==
    [i \in DOMAIN r.host_connections |-> [to |-> r.host_connections[i], msg |-> payload]]
    \o [i \in DOMAIN r.team_connections |-> [to |-> r.team_connections[i][2], msg |-> payload]]
    \o [i \in DOMAIN r.display_connections |-> [to |-> r.display_connections[i], msg |-> payload]]

\* push_hosts delivering as broadcast does.
push_hosts_ToAll(r, payload) == broadcast(r, payload)

push_hosts(r, payload) ==
    [i \in DOMAIN r.host_connections |-> [to |-> r.host_connections[i], msg |-> payload]]

Send(c, payload) == <<[to |-> c, msg |-> payload]>>

---------------------------------------------------------------------------
\* The state after startup: the catalog loaded, one room created, no
\* connection yet. The connections of the model join that room, the variable
\* room; the rooms created later are in the variable rooms.

RoomCode == "AB12CD"

Room(id) ==
    [id |-> id, quiz_id |-> NoQuiz, state |-> "lobby", current_index |-> -1,
     question_end_at |-> 0, venue_title |-> "Venue", venue_logo |-> "venue.png",
     teams |-> <<>>, answers |-> <<>>, host_connections |-> <<>>,
     team_connections |-> <<>>, display_connections |-> <<>>]

\* Everything but the catalog.
Started ==
    /\ now = 0
    /\ pending = <<>>
    /\ room = Room(RoomCode)
    /\ conn = [c \in Conns |-> "new"]
    /\ out = <<>>
    /\ ttl = 0
    /\ steps = 0
    /\ event = [conn |-> 0, type |-> ""]
    /\ rooms = <<>>
    /\ created = ""
    /\ scored = None
    /\ sending = [c \in Conns |-> <<>>]
    /\ delivered = <<>>

Init ==
    /\ quizzes = LoadRows(<<>>, StoreRows)
    /\ Started

---------------------------------------------------------------------------
\* The clock and the catalog reload.

TickMs == DefaultTimeLimit \div 4

Tick(d) ==
    /\ now + d <= MaxTicks * TickMs
    /\ now' = now + d
    /\ out' = <<>>
    /\ UNCHANGED <<quizzes, pending, room, conn, ttl>>

\* load_quizzes runs in the worker thread of a sync endpoint (quiz_save),
\* beside the event loop: the handlers may see the catalog between
\* quizzes.clear() and the last row.
load_quizzes_clear ==
    /\ pending = <<>>
    /\ quizzes' = <<>>
    /\ pending' = StoreRows
    /\ out' = <<>>
    /\ UNCHANGED <<now, room, conn, ttl>>

load_quizzes_row ==
    /\ pending # <<>>
    /\ quizzes' = Put(quizzes, Head(pending).id, QuizOfRow(Head(pending)))
    /\ pending' = Tail(pending)
    /\ out' = <<>>
    /\ UNCHANGED <<now, room, conn, ttl>>

---------------------------------------------------------------------------
\* ws(): the handshake.

Roles == {"host", "team", "display", "admin"}

InitMsgs ==
    {[role |-> r, roomId |-> i] : r \in Roles, i \in {RoomCode, "ZZZZZZ"}}
    \cup {[role |-> r] : r \in Roles}
    \cup {[roomId |-> RoomCode]}

Field(data, k, default) == IF k \in DOMAIN data THEN data[k] ELSE default

\* A refusal of a connection that was already put in the host list.
Refuse_AfterRegistering(c, message) ==
    /\ out' = Send(c, [type |-> "error", message |-> message])
    /\ conn' = [conn EXCEPT ![c] = "closed"]
    /\ room' = [room EXCEPT !.host_connections = Append(@, c)]
    /\ UNCHANGED <<now, quizzes, pending, ttl>>

\* An error reply followed by ws.close() and return.
Refuse(c, message) ==
    /\ out' = Send(c, [type |-> "error", message |-> message])
    /\ conn' = [conn EXCEPT ![c] = "closed"]
    /\ UNCHANGED <<now, quizzes, pending, room, ttl>>

TeamList(teams) ==
    [i \in DOMAIN teams |->
        [id |-> teams[i][2].id, name |-> teams[i][2].name, score |-> teams[i][2].score]]

\* f"t{int(time.time()*1000)%100000}_{len(room.teams)+1}"
NewTeamId(r) == <<now % 100000, Len(r.teams) + 1>>

\* Connections are numbered in the order in which they are accepted.
ws_handshake(c, init) ==
    /\ conn[c] = "new"
    /\ \A b \in 1..(c-1) : conn[b] # "new"
    /\ LET role == Field(init, "role", "")
           room_id == Field(init, "roomId", "")
       IN  IF role \notin {"host", "team", "display"} THEN Refuse(c, "invalid role")
           ELSE IF room_id = "" THEN Refuse(c, "missing roomId")
           ELSE IF get_room(room_id) = None THEN Refuse(c, "room not found")
           ELSE /\ conn' = [conn EXCEPT ![c] = "open"]
                /\ UNCHANGED <<now, quizzes, pending, ttl>>
                /\ CASE role = "host" ->
                          /\ room' = [room EXCEPT !.host_connections = Append(@, c)]
                          /\ out' = Send(c, [type |-> "room:init", roomId |-> room.id,
                                             state |-> room.state])
                     [] role = "team" ->
                          LET team_id == NewTeamId(room)
                              r2 == [room EXCEPT
                                       !.teams = Put(@, team_id, Team(team_id, "Team", 0)),
                                       !.team_connections = Put(@, team_id, c)]
                          IN  /\ room' = r2
                              /\ out' = broadcast(r2, [type |-> "teams:update",
                                                       teams |-> TeamList(r2.teams)])
                                        \o Send(c, [type |-> "team:joined",
                                                    teamId |-> team_id, roomId |-> r2.id])
                     [] role = "display" ->
                          /\ room' = [room EXCEPT !.display_connections = Append(@, c)]
                          /\ out' = Send(c, [type |-> "branding",
                                             venueTitle |-> room.venue_title,
                                             venueLogo |-> room.venue_logo])

---------------------------------------------------------------------------
\* ws(): except WebSocketDisconnect, the client went away.

\* cleanup with the roster entry left behind (del r.teams[tid] forgotten).
cleanup_KeepsRoster(r, c) ==
    LET tids == {k \in Keys(r.team_connections) : Get(r.team_connections, k) = c}
    IN  [r EXCEPT !.host_connections = Remove(@, c),
                  !.display_connections = Remove(@, c),
                  !.team_connections = SelectSeq(@, LAMBDA e : e[1] \notin tids)]

\* The loops of the except WebSocketDisconnect branch, on the one room.
cleanup(r, c) ==
    LET hosts == Remove(r.host_connections, c)
        displays == Remove(r.display_connections, c)
        tids == {k \in Keys(r.team_connections) : Get(r.team_connections, k) = c}
    IN  IF tids = {}
        THEN [r EXCEPT !.host_connections = hosts, !.display_connections = displays]
        ELSE LET tid == r.team_connections[
                            CHOOSE i \in DOMAIN r.team_connections :
                                /\ r.team_connections[i][2] = c
                                /\ \A j \in 1..(i-1) : r.team_connections[j][2] # c][1]
             IN  [r EXCEPT !.host_connections = hosts, !.display_connections = displays,
                           !.team_connections = Del(@, tid),
                           !.teams = Del(@, tid)]

ws_disconnect(c) ==
    /\ conn[c] \in {"new", "open"}
    /\ \A b \in 1..(c-1) : conn[b] # "new"
    /\ conn' = [conn EXCEPT ![c] = "disconnected"]
    /\ room' = cleanup(room, c)
    /\ out' = <<>>
    /\ UNCHANGED <<now, quizzes, pending, ttl>>

---------------------------------------------------------------------------
\* ws(): the message loop. Every handler runs on any open connection: the
\* loop dispatches on data["type"] alone.

\* except Exception: the error is sent to the connection, which is closed;
\* the room keeps what the handler had written, r, and the connection stays
\* in the room's connection lists.
Raise(c, message, r) ==
    /\ room' = r
    /\ out' = Send(c, [type |-> "error", message |-> message])
    /\ conn' = [conn EXCEPT ![c] = "closed"]
    /\ UNCHANGED <<now, quizzes, pending, ttl>>

\* A reply to the sender and `continue`.
Reply(c, payload, r) ==
    /\ room' = r
    /\ out' = Send(c, payload)
    /\ UNCHANGED <<now, quizzes, pending, conn, ttl>>

AttributeError == "'NoneType' object has no attribute 'questions'"
IndexError == "list index out of range"

SetQuizMsgs ==
    {[type |-> "host:set_quiz", quizId |-> q] : q \in {1, 9}}

\* host:set_quiz, reading the catalog it is given.
host_set_quiz_in(catalog, c, data) ==
    /\ conn[c] = "open"
    /\ IF "quizId" \notin DOMAIN data THEN Raise(c, "'quizId'", room)
       ELSE LET qid == data.quizId
            IN  IF get_quiz_in(catalog, qid) = None
                THEN Reply(c, [type |-> "error", message |-> "quiz not found"], room)
                ELSE LET r1 == [room EXCEPT !.quiz_id = qid, !.current_index = -1,
                                            !.state = "lobby"]
                     IN  /\ room' = r1
                         /\ out' = broadcast(r1, [type |-> "quiz:set", quizId |-> qid])
                         /\ UNCHANGED <<now, quizzes, pending, conn, ttl>>

\* A host:set_quiz that empties the answer ledger when it selects the quiz.
host_set_quiz_ClearsAnswers(c, data) ==
    /\ conn[c] = "open"
    /\ IF get_quiz(data.quizId) = None
       THEN Reply(c, [type |-> "error", message |-> "quiz not found"], room)
       ELSE LET r1 == [room EXCEPT !.quiz_id = data.quizId, !.current_index = -1,
                                   !.state = "lobby", !.answers = <<>>]
            IN  /\ room' = r1
                /\ out' = broadcast(r1, [type |-> "quiz:set", quizId |-> data.quizId])
                /\ UNCHANGED <<now, quizzes, pending, conn, ttl>>

host_set_quiz(c, data) == host_set_quiz_in(quizzes, c, data)

SetBrandMsgs ==
    {[type |-> "host:set_brand", title |-> "Pub"]}

host_set_brand(c, data) ==
    /\ conn[c] = "open"
    /\ LET r1 == [room EXCEPT !.venue_title = Field(data, "title", ""),
                              !.venue_logo = Field(data, "logo", "")]
       IN  /\ room' = r1
           /\ out' = broadcast(r1, [type |-> "branding", venueTitle |-> r1.venue_title,
                                     venueLogo |-> r1.venue_logo])
           /\ UNCHANGED <<now, quizzes, pending, conn, ttl>>

StartQuestionMsgs ==
    {[type |-> "host:start_question"],
     [type |-> "host:start_question", timeLimitMs |-> TickMs]}
    \cup {[type |-> "host:start_question", index |-> i] : i \in {0, 1, 3}}

\* The index host:start_question writes to room.current_index before it
\* checks it.
NextIndex(r, data) ==
    IF "index" \in DOMAIN data THEN data.index ELSE r.current_index + 1

\* A prompt that carries the correct option as well.
Prompt_WithAnswer(q, end_at) ==
    [type |-> "question:prompt", questionId |-> q.id, questionEndAt |-> end_at,
     correctIndex |-> q.answer]

\* The question:prompt payload: of the question, its id.
Prompt(q, end_at) ==
    [type |-> "question:prompt", questionId |-> q.id, questionEndAt |-> end_at]

\* host:start_question, reading the catalog it is given.
host_start_question_in(catalog, c, data) ==
    /\ conn[c] = "open"
    /\ "index" \notin DOMAIN data => room.current_index < MaxIndex
    /\ LET quiz == IF room.quiz_id # NoQuiz THEN get_quiz_in(catalog, room.quiz_id) ELSE None
       IN  IF quiz = None
           THEN Reply(c, [type |-> "error", message |-> "no quiz set"], room)
           ELSE LET r1 == [room EXCEPT !.current_index = NextIndex(room, data)]
                IN  IF r1.current_index < 0 \/ r1.current_index >= Len(quiz.questions)
                    THEN Reply(c, [type |-> "error", message |-> "no more questions"], r1)
                    ELSE LET q == quiz.questions[r1.current_index + 1]
                             t == Field(data, "timeLimitMs", q.timeLimit)
                             r2 == [r1 EXCEPT !.question_end_at = now + t,
                                              !.state = "asking",
                                              !.answers = ensure_answer_bucket(@, q.id)]
                         IN  /\ room' = r2
                             /\ ttl' = t
                             /\ out' = broadcast(r2, Prompt(q, r2.question_end_at))
                             /\ UNCHANGED <<now, quizzes, pending, conn>>

host_start_question(c, data) == host_start_question_in(quizzes, c, data)

\* host:lock, reading the catalog it is given.
host_lock_in(catalog, c) ==
    /\ conn[c] = "open"
    /\ LET r1 == [room EXCEPT !.state = "locked"]
           quiz == get_quiz_in(catalog, room.quiz_id)
       IN  IF quiz = None THEN Raise(c, AttributeError, r1)
           ELSE LET pos == ListIndex(Len(quiz.questions), room.current_index)
                IN  IF pos = 0 THEN Raise(c, IndexError, r1)
                    ELSE /\ room' = r1
                         /\ out' = broadcast(r1, [type |-> "question:locked",
                                                  questionId |-> quiz.questions[pos].id])
                         /\ UNCHANGED <<now, quizzes, pending, conn, ttl>>

host_lock(c) == host_lock_in(quizzes, c)

\* counts[option] += 1 on the 4-slot list; raised is TRUE for IndexError.
Count(counts, option) ==
    LET pos == ListIndex(Len(counts), option)
    IN  IF pos = 0 THEN [raised |-> TRUE, counts |-> counts]
        ELSE [raised |-> FALSE, counts |-> [counts EXCEPT ![pos] = @ + 1]]

\* The histogram loop of team:answer over bucket.values().
RECURSIVE Tally(_, _)
Tally(answers, counts) ==
    IF answers = <<>> THEN [raised |-> FALSE, counts |-> counts]
    ELSE LET c1 == Count(counts, Head(answers).option)
         IN  IF c1.raised THEN c1 ELSE Tally(Tail(answers), c1.counts)

\* team.score += score_answer(True, q.timeLimit, a.ms_remaining) for the
\* team of a correct answer, when the team is still in the roster.
Credit(teams, q, a) ==
    IF a.option = q.answer /\ Has(teams, a.team_id)
    THEN LET team == Get(teams, a.team_id)
         IN  Put(teams, a.team_id,
                 [team EXCEPT !.score = @ + score_answer(TRUE, q.timeLimit, a.ms_remaining)])
    ELSE teams

\* The loop of host:reveal over ansmap.values(): it stops at the first
\* IndexError, with the scores credited so far.
RECURSIVE RevealLoop(_, _, _, _)
RevealLoop(answers, q, counts, teams) ==
    IF answers = <<>> THEN [raised |-> FALSE, counts |-> counts, teams |-> teams]
    ELSE LET c1 == Count(counts, Head(answers).option)
         IN  IF c1.raised THEN [raised |-> TRUE, counts |-> counts, teams |-> teams]
             ELSE RevealLoop(Tail(answers), q, c1.counts, Credit(teams, q, Head(answers)))

\* sorted(..., key=score, reverse=True): stable.
RECURSIVE SortedByScore(_)
SortedByScore(s) ==
    IF s = <<>> THEN <<>>
    ELSE LET front == SortedByScore(SubSeq(s, 1, Len(s) - 1))
             x == s[Len(s)]
             k == Cardinality({i \in DOMAIN front : front[i].score >= x.score})
         IN  SubSeq(front, 1, k) \o <<x>> \o SubSeq(front, k + 1, Len(front))

Leaderboard(teams) ==
    SortedByScore([i \in DOMAIN teams |->
        [teamId |-> teams[i][2].id, name |-> teams[i][2].name, score |-> teams[i][2].score]])

MaxScoreOf(teams) ==
    IF teams = <<>> THEN 0
    ELSE CHOOSE m \in {teams[i][2].score : i \in DOMAIN teams} :
            \A i \in DOMAIN teams : teams[i][2].score <= m

\* host:reveal, reading the catalog it is given.
host_reveal_in(catalog, c) ==
    /\ conn[c] = "open"
    /\ MaxScoreOf(room.teams) < MaxCredits * 100
    /\ LET quiz == get_quiz_in(catalog, room.quiz_id)
       IN  IF quiz = None THEN Raise(c, AttributeError, room)
           ELSE LET pos == ListIndex(Len(quiz.questions), room.current_index)
                IN  IF pos = 0 THEN Raise(c, IndexError, room)
                    ELSE LET q == quiz.questions[pos]
                             ansmap == IF Has(room.answers, q.id)
                                       THEN Get(room.answers, q.id) ELSE <<>>
                             res == RevealLoop(Values(ansmap), q, <<0, 0, 0, 0>>, room.teams)
                             r1 == [room EXCEPT !.teams = res.teams]
                             r2 == [r1 EXCEPT !.state = "revealed"]
                         IN  IF res.raised THEN Raise(c, IndexError, r1)
                             ELSE /\ room' = r2
                                  /\ out' = broadcast(r2, [type |-> "results:summary",
                                              questionId |-> q.id,
                                              correctIndex |-> q.answer,
                                              counts |-> res.counts,
                                              leaderboard |-> Leaderboard(r2.teams)])
                                  /\ UNCHANGED <<now, quizzes, pending, conn, ttl>>

host_reveal(c) == host_reveal_in(quizzes, c)

Winners(teams) ==
    LET sorted == SortedByScore(Values(teams))
        top == SubSeq(sorted, 1, IF Len(sorted) < 3 THEN Len(sorted) ELSE 3)
    IN  [i \in DOMAIN top |-> [name |-> top[i].name, score |-> top[i].score]]

host_finish(c) ==
    /\ conn[c] = "open"
    /\ LET r1 == [room EXCEPT !.state = "finished"]
       IN  /\ room' = r1
           /\ out' = broadcast(r1, [type |-> "quiz:finished", winners |-> Winners(r1.teams)])
           /\ UNCHANGED <<now, quizzes, pending, conn, ttl>>

AnswerMsgs ==
    {[type |-> "team:answer", option |-> o] : o \in {0, 1, -1, 7}}
    \cup {[type |-> "team:answer"]}

\* now > room.question_end_at or room.state not in ("asking",)
IsLate(r, t) == t > r.question_end_at \/ r.state # "asking"

\* The team id of the connection in room.team_connections, <<>> for None.
TeamOf(r, c) ==
    IF \E i \in DOMAIN r.team_connections : r.team_connections[i][2] = c
    THEN r.team_connections[CHOOSE i \in DOMAIN r.team_connections :
            /\ r.team_connections[i][2] = c
            /\ \A j \in 1..(i-1) : r.team_connections[j][2] # c][1]
    ELSE <<>>

\* The duplicate test left out.
AlreadyAnswered_Never(bucket, team_id) == FALSE

\* team_id in bucket
AlreadyAnswered(bucket, team_id) == Has(bucket, team_id)

Ignore(c) ==
    /\ out' = <<>>
    /\ UNCHANGED <<now, quizzes, pending, room, conn, ttl>>

\* team:answer, reading the catalog it is given.
team_answer_in(catalog, c, data) ==
    /\ conn[c] = "open"
    /\ LET quiz == IF room.quiz_id # NoQuiz THEN get_quiz_in(catalog, room.quiz_id) ELSE None
       IN  IF quiz = None \/ room.current_index < 0 THEN Ignore(c)
           ELSE IF room.current_index >= Len(quiz.questions) THEN Raise(c, IndexError, room)
           ELSE LET q == quiz.questions[room.current_index + 1]
                    team_id == TeamOf(room, c)
                IN  IF IsLate(room, now)
                    THEN Reply(c, [type |-> "answer:rejected", reason |-> "late"], room)
                    ELSE IF team_id = <<>> THEN Ignore(c)
                    ELSE LET r1 == [room EXCEPT !.answers = ensure_answer_bucket(@, q.id)]
                             bucket == Get(r1.answers, q.id)
                             remaining == Max(0, room.question_end_at - now)
                         IN  IF AlreadyAnswered(bucket, team_id)
                             THEN Reply(c, [type |-> "answer:rejected",
                                            reason |-> "already answered"], r1)
                             ELSE IF "option" \notin DOMAIN data
                             THEN Raise(c, "'option'", r1)
                             ELSE LET b2 == Put(bucket, team_id,
                                                Answer(team_id, q.id, data.option, now, remaining))
                                      r2 == [r1 EXCEPT !.answers = Put(@, q.id, b2)]
                                      accepted == Send(c, [type |-> "answer:accepted",
                                                          remainingMs |-> remaining])
                                      t == Tally(Values(b2), <<0, 0, 0, 0>>)
                                  IN  IF t.raised
                                      THEN /\ room' = r2
                                           /\ out' = accepted \o
                                                Send(c, [type |-> "error", message |-> IndexError])
                                           /\ conn' = [conn EXCEPT ![c] = "closed"]
                                           /\ UNCHANGED <<now, quizzes, pending, ttl>>
                                      ELSE /\ room' = r2
                                           /\ out' = accepted \o
                                                push_hosts(r2, [type |-> "answers:progress",
                                                    questionId |-> q.id,
                                                    counts |-> t.counts,
                                                    answered |-> Len(b2),
                                                    teamsTotal |-> Len(r2.teams)])
                                           /\ UNCHANGED <<now, quizzes, pending, conn, ttl>>

team_answer(c, data) == team_answer_in(quizzes, c, data)

\* A message whose type no branch of the loop matches.
other_message(c) ==
    /\ conn[c] = "open"
    /\ Ignore(c)

---------------------------------------------------------------------------
\* One step of a run of at most MaxSteps steps that is not ws()'s: the
\* clock advances or the reload thread runs.
Handle(A) ==
    /\ steps < MaxSteps
    /\ A
    /\ steps' = steps + 1
    /\ event' = [conn |-> 0, type |-> ""]
    /\ UNCHANGED <<rooms, created, scored, sending, delivered>>

\* One step of ws() on connection c, from one receive_json to the next: the
\* handshake, a message of the given type, or WebSocketDisconnect.
Receive(c, type, A) ==
    /\ steps < MaxSteps
    /\ A
    /\ steps' = steps + 1
    /\ event' = [conn |-> c, type |-> type]
    /\ UNCHANGED <<rooms, created, scored, sending, delivered>>

Next ==
    \/ \E d \in {TickMs, 3 * TickMs} : Handle(Tick(d))
    \/ Handle(load_quizzes_clear)
    \/ Handle(load_quizzes_row)
    \/ \E c \in Conns : \E init \in InitMsgs : Receive(c, "handshake", ws_handshake(c, init))
    \/ \E c \in Conns : Receive(c, "disconnect", ws_disconnect(c))
    \/ \E c \in Conns : \E data \in SetQuizMsgs : Receive(c, data.type, host_set_quiz(c, data))
    \/ \E c \in Conns : \E data \in SetBrandMsgs : Receive(c, data.type, host_set_brand(c, data))
    \/ \E c \in Conns : \E data \in StartQuestionMsgs :
            Receive(c, data.type, host_start_question(c, data))
    \/ \E c \in Conns : Receive(c, "host:lock", host_lock(c))
    \/ \E c \in Conns : Receive(c, "host:reveal", host_reveal(c))
    \/ \E c \in Conns : Receive(c, "host:finish", host_finish(c))
    \/ \E c \in Conns : \E data \in AnswerMsgs : Receive(c, data.type, team_answer(c, data))
    \/ \E c \in Conns : Receive(c, "ping", other_message(c))

Spec == Init /\ [][Next]_vars

---------------------------------------------------------------------------
\* create_room, called one call at a time.

\* The codes _code(6) may return: NumCodes of the 36^6 strings.
CodePool ==
    <<"AB12CD", "AB12CE", "AB12CF", "AB12CG", "AB12CH", "AB12CI", "AB12CJ">>

Codes == {CodePool[i] : i \in 1..NumCodes}

\* The keys of RoomManager.rooms.
Registry == {room.id} \cup Keys(rooms)

\* What _code returns call after call, while create_room runs.
Draws == UNION {[1..n -> Codes] : n \in 1..MaxDraws}

\* The first draw taken, whatever the registry holds.
RetryLoop_FirstDraw(registry, draws) == Head(draws)

\* rid = _code(6); while rid in self.rooms: rid = _code(6), over the draws
\* in order: the first code that is not in the registry, "" while every draw
\* so far was in it (the loop goes on).
RECURSIVE RetryLoop(_, _)
RetryLoop(registry, draws) ==
    IF draws = <<>> THEN ""
    ELSE IF Head(draws) \in registry THEN RetryLoop(registry, Tail(draws))
    ELSE Head(draws)

\* self.rooms[rid] = room, on the registry split into room and rooms.
Register(rid, r) ==
    /\ rooms' = (IF rid = room.id THEN rooms ELSE Put(rooms, rid, r))
    /\ room' = (IF rid = room.id THEN r ELSE room)

create_room(draws, venue_title) ==
    LET rid == RetryLoop(Registry, draws)
    IN  /\ rid # ""
        /\ Register(rid, [Room(rid) EXCEPT !.venue_title = venue_title])
        /\ created' = rid
        /\ UNCHANGED <<now, quizzes, pending, conn, out, ttl, steps, event, scored,
                       sending, delivered>>

NextRooms ==
    \E draws \in Draws : \E venue_title \in {"Venue", "Other"} :
        create_room(draws, venue_title)

SpecRooms == Init /\ [][NextRooms]_vars

---------------------------------------------------------------------------
\* One question from start to reveal: a catalog whose quiz has two questions,
\* the first with answer 1 and a limit of Limits, teams that join, the host
\* messages set_quiz, start_question without index and reveal, answers of
\* option 0 or 1, and the clock advancing by one of Elapsed.

Limits == {DefaultTimeLimit, MaxLimit \div 2, MaxLimit}

Elapsed == {3 * TickMs, MaxLimit \div 2 - 4, MaxLimit - 8, MaxLimit - 41}

RowsWith(limit) ==
    << [id |-> 1, questions |-> << [id |-> "q1", answer |-> 1, timeLimit |-> limit],
                                   [answer |-> 0] >>] >>

InitEndToEnd ==
    /\ \E limit \in Limits : quizzes = LoadRows(<<>>, RowsWith(limit))
    /\ Started

NextEndToEnd ==
    \/ \E d \in Elapsed : Handle(Tick(d))
    \/ \E c \in Conns :
            Receive(c, "handshake", ws_handshake(c, [role |-> "team", roomId |-> RoomCode]))
    \/ \E c \in Conns :
            Receive(c, "host:set_quiz",
                    host_set_quiz(c, [type |-> "host:set_quiz", quizId |-> 1]))
    \/ \E c \in Conns :
            Receive(c, "host:start_question",
                    host_start_question(c, [type |-> "host:start_question"]))
    \/ \E c \in Conns : \E o \in {0, 1} :
            Receive(c, "team:answer", team_answer(c, [type |-> "team:answer", option |-> o]))
    \/ \E c \in Conns : Receive(c, "host:reveal", host_reveal(c))

SpecEndToEnd == InitEndToEnd /\ [][NextEndToEnd]_vars

---------------------------------------------------------------------------
\* score_answer on its own, called once, over every limit up to MaxLimit and
\* every remaining time from below 0 to above the limit.

score_answer_call(is_correct, total_ms, remaining_ms) ==
    /\ scored = None
    /\ scored' = [is_correct |-> is_correct, total_ms |-> total_ms,
                  remaining_ms |-> remaining_ms,
                  points |-> score_answer(is_correct, total_ms, remaining_ms)]
    /\ UNCHANGED <<now, quizzes, pending, room, conn, out, ttl, steps, event,
                   rooms, created, sending, delivered>>

NextScore ==
    \E is_correct \in BOOLEAN : \E total_ms \in 0..MaxLimit :
        \E remaining_ms \in (-1)..(total_ms + 1) :
            score_answer_call(is_correct, total_ms, remaining_ms)

SpecScore == Init /\ [][NextScore]_vars

---------------------------------------------------------------------------
\* load_quizzes(rows) as one call with nothing running beside it, on rows
\* that need not be well formed.

\* q["answer"] raises KeyError: the question has no answer.
MalformedQuestion(q) == "answer" \notin DOMAIN q

MalformedRow(r) ==
    \E i \in DOMAIN r.questions : MalformedQuestion(r.questions[i])

\* The question lists a row can have: none, one question, two questions of
\* which the second has no id; one question without answer; a good question
\* followed by one without answer.
QuestionLists ==
    { <<>>,
      << [id |-> "q1", answer |-> 1] >>,
      << [id |-> "q1", answer |-> 0], [answer |-> 1, timeLimit |-> MaxLimit] >>,
      << [id |-> "q1"] >>,
      << [id |-> "q1", answer |-> 1], [id |-> "q2", timeLimit |-> MaxLimit] >> }

RowPool == {[id |-> i, questions |-> qs] : i \in 1..MaxQuizId, qs \in QuestionLists}

ReloadInputs == UNION {[1..n -> RowPool] : n \in 0..MaxRows}

\* The catalog when the loop over the rows ends or raises: the questions of
\* a row are collected in a local list, so the row that raises writes
\* nothing, and no row after it is read.
RECURSIVE LoadUntilRaise(_, _)
LoadUntilRaise(d, rows) ==
    IF rows = <<>> \/ MalformedRow(Head(rows)) THEN d
    ELSE LoadUntilRaise(Put(d, Head(rows).id, QuizOfRow(Head(rows))), Tail(rows))

\* self.quizzes.clear(), then the loop.
load_quizzes(rows) ==
    /\ quizzes' = LoadUntilRaise(<<>>, rows)
    /\ UNCHANGED <<now, pending, room, conn, out, ttl, steps, event, rooms,
                   created, scored, sending, delivered>>

NextReload == \E rows \in ReloadInputs : load_quizzes(rows)

SpecReload == Init /\ [][NextReload]_vars

---------------------------------------------------------------------------
\* The handlers with their awaits. A handler runs without interruption up
\* to its first `await ws.send_json`, which comes after all its writes to
\* the room; at every send_json of its fan-out the coroutine may be
\* suspended and the coroutine of another connection may run. Here a handler
\* step computes the sends (out) and queues them for its connection, and
\* each send is a step of its own. No connection joins during a fan-out, so
\* the lists that broadcast copies loop by loop are the lists of the handler
\* step.

\* The sends of a handler, marked with the number of the handler step.
Queued(sends, at) ==
    [n \in DOMAIN sends |-> [to |-> sends[n].to, msg |-> sends[n].msg, at |-> at]]

\* The coroutine of connection c reads its next message and handles it.
Begin(c, type, A) ==
    /\ steps < MaxBegun
    /\ sending[c] = <<>>
    /\ A
    /\ steps' = steps + 1
    /\ event' = [conn |-> c, type |-> type]
    /\ sending' = [sending EXCEPT ![c] = Queued(out', steps')]
    /\ UNCHANGED <<rooms, created, scored, delivered>>

\* The coroutine of connection c makes its next send_json.
send_json(c) ==
    /\ sending[c] # <<>>
    /\ delivered' = Append(delivered, Head(sending[c]))
    /\ sending' = [sending EXCEPT ![c] = Tail(@)]
    /\ UNCHANGED <<now, quizzes, pending, room, conn, out, ttl, steps, event, rooms,
                   created, scored>>

NextAwait ==
    \/ \E c \in Conns : \E role \in {"host", "display"} :
            /\ \A b \in Conns : sending[b] = <<>>
            /\ Begin(c, "handshake", ws_handshake(c, [role |-> role, roomId |-> RoomCode]))
    \/ \E c \in Conns :
            Begin(c, "host:set_quiz", host_set_quiz(c, [type |-> "host:set_quiz", quizId |-> 1]))
    \/ \E c \in Conns :
            Begin(c, "host:start_question",
                  host_start_question(c, [type |-> "host:start_question"]))
    \/ \E c \in Conns : Begin(c, "host:lock", host_lock(c))
    \/ \E c \in Conns : Begin(c, "host:reveal", host_reveal(c))
    \/ \E c \in Conns : send_json(c)

SpecAwait == Init /\ [][NextAwait]_vars

---------------------------------------------------------------------------
\* Vocabulary of the properties.

\* The step handles an event of this type on connection c.
Handled(c, type) == event' = [conn |-> c, type |-> type]

IsHost(r, c) == \E i \in DOMAIN r.host_connections : r.host_connections[i] = c

IsTeam(r, c) == TeamOf(r, c) # <<>>

IsDisplay(r, c) == \E i \in DOMAIN r.display_connections : r.display_connections[i] = c

Registered(r, c) == IsHost(r, c) \/ IsTeam(r, c) \/ IsDisplay(r, c)

Bucket(r, qid) == IF Has(r.answers, qid) THEN Get(r.answers, qid) ELSE <<>>

Resolves(r) == get_quiz(r.quiz_id) # None

\* A quiz and a question are selected, as team:answer tests it.
QuestionSelected(r) == r.quiz_id # NoQuiz /\ Resolves(r) /\ r.current_index >= 0

\* room.current_index is the index of a question of the room's quiz.
HasCurrent(r) ==
    QuestionSelected(r) /\ r.current_index < Len(get_quiz(r.quiz_id).questions)

CurrentQuestion(r) == get_quiz(r.quiz_id).questions[r.current_index + 1]

Rejected(c, reason) == Send(c, [type |-> "answer:rejected", reason |-> reason])

\* The connection's team has an Answer in the bucket of the current question.
HasAnswered(r, c) ==
    /\ HasCurrent(r)
    /\ IsTeam(r, c)
    /\ Has(Bucket(r, CurrentQuestion(r).id), TeamOf(r, c))

\* Every Answer of the ledger is still there, as it was, after the step.
AnswersKept ==
    \A qid \in Keys(room.answers) :
        \A tid \in Keys(Get(room.answers, qid)) :
            /\ Has(room'.answers, qid)
            /\ Has(Get(room'.answers, qid), tid)
            /\ Get(Get(room'.answers, qid), tid) = Get(Get(room.answers, qid), tid)

RECURSIVE SumOfScores(_)
SumOfScores(teams) ==
    IF teams = <<>> THEN 0 ELSE Head(teams)[2].score + SumOfScores(Tail(teams))

\* The sum of score(true, limit, ms_remaining) over the answers of a bucket
\* whose option is the question's correct index.
RECURSIVE SumOfCorrect(_, _, _)
SumOfCorrect(answers, q, limit) ==
    IF answers = <<>> THEN 0
    ELSE (IF Head(answers).option = q.answer
          THEN score_answer(TRUE, limit, Head(answers).ms_remaining) ELSE 0)
         + SumOfCorrect(Tail(answers), q, limit)

---------------------------------------------------------------------------
\* C1 as stated: no Answer of the ledger is ever replaced or removed, and
\* every team:answer of a team that has an Answer in the bucket of the
\* current question is answered answer:rejected "already answered".
C1_SecondAnswerAlwaysAlreadyAnswered ==
    [][ /\ AnswersKept
        /\ \A c \in Conns :
              Handled(c, "team:answer") /\ HasAnswered(room, c)
                  => out' = Rejected(c, "already answered") ]_vars

\* C1 amended: no Answer of the ledger is ever replaced or removed (the
\* bucket keeps the option and ms_remaining of the first submission), and a
\* team:answer of a team that has an Answer in the bucket of the current
\* question is answered "already answered" when it is handled in state asking
\* with now <= question_end_at, and "late" otherwise.
C1_AtMostOneAnswer ==
    [][ /\ AnswersKept
        /\ \A c \in Conns :
              Handled(c, "team:answer") /\ HasAnswered(room, c)
                  => out' = Rejected(c, IF IsLate(room, now) THEN "late"
                                        ELSE "already answered") ]_vars

\* C1 witness: a team:answer was just rejected as already answered, with the
\* team's first Answer in the bucket.
C1_Witness ==
    \E c \in Conns :
        /\ event = [conn |-> c, type |-> "team:answer"]
        /\ out = Rejected(c, "already answered")
        /\ HasAnswered(room, c)

\* C2 as stated: a team:answer handled while a quiz and a question are
\* selected (current_index >= 0) and either now > question_end_at or the
\* state is not asking is answered answer:rejected "late" and changes no
\* bucket.
C2_LateIsRejected ==
    [][ \A c \in Conns :
            Handled(c, "team:answer") /\ QuestionSelected(room) /\ IsLate(room, now)
                => out' = Rejected(c, "late") /\ room'.answers = room.answers ]_vars

\* C3 as stated: a host:reveal handled while the room is revealed or
\* finished changes no team's score.
C3_RevealCreditsOnce ==
    [][ \A c \in Conns :
            Handled(c, "host:reveal") /\ room.state \in {"revealed", "finished"}
                => room'.teams = room.teams ]_vars

\* C4 as stated: in every results:summary, counts[i] is the number of
\* Answers in the question's bucket whose option is i, for i in 0..3.
C4_CountsMatchBucket ==
    \A n \in DOMAIN out :
        out[n].msg.type = "results:summary" =>
            LET b == Values(Bucket(room, out[n].msg.questionId))
            IN  \A i \in 0..3 :
                    out[n].msg.counts[i + 1] =
                        Cardinality({j \in DOMAIN b : b[j].option = i})

\* C5 as stated: a reveal of the current question raises the sum of the
\* scores by the sum of score(true, timeLimit, ms_remaining) over the Answers
\* of the bucket with the correct option, timeLimit being the limit the
\* question was started with.
C5_RevealCreditsByLimitInForce ==
    [][ \A c \in Conns :
            /\ Handled(c, "host:reveal")
            /\ HasCurrent(room)
            /\ room.state \in {"asking", "locked"}
            /\ room'.state = "revealed"
            => SumOfScores(room'.teams) - SumOfScores(room.teams) =
                   SumOfCorrect(Values(Bucket(room, CurrentQuestion(room).id)),
                                CurrentQuestion(room), ttl) ]_vars

\* C6 as stated: a host:start_question answered "no more questions" leaves
\* room.state and room.current_index as they were.
C6_RejectedStartIsNoOp ==
    [][ \A c \in Conns :
            /\ Handled(c, "host:start_question")
            /\ out' = Send(c, [type |-> "error", message |-> "no more questions"])
            => /\ room'.state = room.state
               /\ room'.current_index = room.current_index ]_vars

\* C7: the disconnect of a connection removes the team_connections entry
\* that maps to it and the roster entry of the same team id, and a
\* disconnected connection is in none of the room's connection lists and
\* gets no send of any later step.
C7_DisconnectForgetsTeam ==
    [][ \A c \in Conns :
            /\ Handled(c, "disconnect") =>
                  \A i \in DOMAIN room.team_connections :
                      room.team_connections[i][2] = c =>
                          /\ ~Has(room'.team_connections, room.team_connections[i][1])
                          /\ ~Has(room'.teams, room.team_connections[i][1])
            /\ conn'[c] = "disconnected" =>
                  /\ ~Registered(room', c)
                  /\ \A n \in DOMAIN out' : out'[n].to # c ]_vars

\* C7 witness: the team that joined first has disconnected, the team that
\* joined second is alone in the roster and in team_connections, and a host
\* has just broadcast the branding: to itself and to the team that stayed.
C7_Witness ==
    \E c, h \in Conns :
        /\ conn[c] = "disconnected"
        /\ Len(room.teams) = 1
        /\ Len(room.team_connections) = 1
        /\ room.teams[1][1][2] = 2
        /\ IsHost(room, h)
        /\ event = [conn |-> h, type |-> "host:set_brand"]
        /\ {out[n].to : n \in DOMAIN out} = {h, room.team_connections[1][2]}

\* C8 as stated: a host:reveal on a room whose quiz resolves and has a
\* question at current_index does not end in the internal error, and
\* neither does a team:answer that records an option in 0..3: the sender's
\* connection stays open.
C8_ErrorsStayAtTheirConnection ==
    [][ \A c \in Conns :
            /\ (Handled(c, "host:reveal") /\ HasCurrent(room)) => conn'[c] = "open"
            /\ ( /\ Handled(c, "team:answer")
                 /\ ~HasAnswered(room, c)
                 /\ HasAnswered(room', c)
                 /\ Get(Bucket(room', CurrentQuestion(room).id),
                        TeamOf(room, c)).option \in 0..3 )
               => conn'[c] = "open" ]_vars

\* C9 as stated: a host:lock or host:reveal handled while no quiz is set, or
\* while room.quiz_id does not resolve, leaves the connection open and
\* room.state as it was.
C9_StateConflictNotFatal ==
    [][ \A c \in Conns :
            /\ Handled(c, "host:lock") \/ Handled(c, "host:reveal")
            /\ room.quiz_id = NoQuiz \/ ~Resolves(room)
            => conn'[c] = "open" /\ room'.state = room.state ]_vars

\* What a host drives: state, current_index, quiz_id, branding, scores.
Driven(r) ==
    <<r.state, r.current_index, r.quiz_id, r.venue_title, r.venue_logo,
      [i \in DOMAIN r.teams |-> r.teams[i][2].score]>>

HostTypes ==
    {"host:set_quiz", "host:set_brand", "host:start_question", "host:lock",
     "host:reveal", "host:finish"}

\* C10 as stated: a host:* message handled on a connection registered as
\* team or display changes nothing a host drives.
C10_OnlyHostDrives ==
    [][ \A c \in Conns :
            /\ event'.conn = c
            /\ event'.type \in HostTypes
            /\ IsTeam(room, c) \/ IsDisplay(room, c)
            => Driven(room') = Driven(room) ]_vars

\* C11 as stated: room.state becomes locked only from asking and becomes
\* revealed only from asking or locked, and a host:reveal handled while
\* current_index = -1 changes no score and sends no results:summary.
C11_LockRevealSources ==
    [][ /\ (room'.state = "locked" /\ room.state # "locked") => room.state = "asking"
        /\ (room'.state = "revealed" /\ room.state # "revealed")
              => room.state \in {"asking", "locked"}
        /\ \A c \in Conns :
              Handled(c, "host:reveal") /\ room.current_index = -1
                  => /\ room'.teams = room.teams
                     /\ \A n \in DOMAIN out' : out'[n].msg.type # "results:summary" ]_vars

\* C13 as stated: a team handshake never takes the id of a team that is in
\* the roster: every roster entry and every connection mapping that was there
\* before the handshake is there, as it was, after it.
C13_JoinKeepsRoster ==
    [][ \A c \in Conns :
            Handled(c, "handshake") =>
                \A i \in DOMAIN room.teams :
                    LET tid == room.teams[i][1]
                    IN  /\ Has(room'.teams, tid)
                        /\ Get(room'.teams, tid) = room.teams[i][2]
                        /\ Has(room'.team_connections, tid)
                        /\ Get(room'.team_connections, tid) = Get(room.team_connections, tid) ]_vars

\* C12: a create_room that returns registers the room under a code that was
\* not in the registry, the registry grows by that one code, every room that
\* was registered is still registered as it was, and the codes of the
\* registry are pairwise distinct.
C12_CreateRoomUnique ==
    [][ created' # "" /\ (rooms' # rooms \/ room' # room \/ created' # created) =>
            /\ created' \notin Registry
            /\ Registry' = Registry \cup {created'}
            /\ Len(rooms') = Len(rooms) + 1
            /\ room' = room
            /\ \A i \in DOMAIN rooms : rooms'[i] = rooms[i]
            /\ rooms'[Len(rooms')][2].id = created'
            /\ \A i, j \in DOMAIN rooms' :
                  i # j => rooms'[i][1] # rooms'[j][1] /\ rooms'[i][1] # room'.id ]_vars

\* C12 witness: three rooms have been created beside the first, the last
\* of them under the code create_room returned.
C12_Witness ==
    /\ Len(rooms) = 3
    /\ created = rooms[3][1]
    /\ Cardinality(Registry) = 4

\* C14: score_answer(false, t, r) is 0; for a limit t >= 1 and r in 0..t,
\* score_answer(true, t, r) is in 50..100, is 50 at r = 0 and 100 at r = t,
\* and is not above score_answer(true, t, r + 1).
C14_ScoreRangeAndMonotone ==
    scored # None =>
        LET t == scored.total_ms
            r == scored.remaining_ms
        IN  /\ ~scored.is_correct => scored.points = 0
            /\ (scored.is_correct /\ t >= 1 /\ r \in 0..t) =>
                  /\ scored.points \in 50..100
                  /\ r = 0 => scored.points = 50
                  /\ r = t => scored.points = 100
                  /\ r < t => scored.points <= score_answer(TRUE, t, r + 1)

\* C14 witness: a correct answer with 4 of 25 remaining was scored, strictly
\* between the ends of the range.
C14_Witness ==
    /\ scored # None
    /\ scored.is_correct
    /\ scored.total_ms = 25
    /\ scored.remaining_ms = 4
    /\ scored.points \in 51..99

\* The exact floor(100 * (0.5 + 0.5 * r / t)) for 0 <= r <= t, t >= 1.
ExactScore(t, r) == (50 * t + 50 * r) \div t

\* C15 as stated: after set_quiz of the 2-question quiz in a new room, a
\* start_question without index makes current_index 0; and a reveal of that
\* question, the first, with one Answer in its bucket, of the correct option
\* and with r ms remaining of the limit t, sends counts with 1 at that option
\* and 0 elsewhere and leaves the team with floor(100 * (0.5 + 0.5 * r / t)).
C15_EndToEndScore ==
    [][ \A c \in Conns :
            /\ ( /\ Handled(c, "host:start_question")
                 /\ room.current_index = -1
                 /\ room'.state = "asking" ) => room'.current_index = 0
            /\ ( /\ Handled(c, "host:reveal")
                 /\ HasCurrent(room)
                 /\ room.current_index = 0
                 /\ room.state = "asking"
                 /\ Len(Bucket(room, CurrentQuestion(room).id)) = 1
                 /\ Len(room.teams) = 1
                 /\ room.teams[1][2].score = 0
                 /\ LET a == Bucket(room, CurrentQuestion(room).id)[1][2]
                    IN  /\ a.team_id = room.teams[1][1]
                        /\ a.option = CurrentQuestion(room).answer
                        /\ a.ms_remaining <= CurrentQuestion(room).timeLimit
                        /\ ttl = CurrentQuestion(room).timeLimit )
               => LET q == CurrentQuestion(room)
                      a == Bucket(room, q.id)[1][2]
                  IN  /\ \E n \in DOMAIN out' :
                            /\ out'[n].msg.type = "results:summary"
                            /\ out'[n].msg.counts =
                                  [i \in 1..4 |-> IF i = a.option + 1 THEN 1 ELSE 0]
                      /\ room'.teams[1][2].score = ExactScore(q.timeLimit, a.ms_remaining)
      ]_vars

\* C16: every answers:progress goes to a connection that is in
\* host_connections and neither a team's nor a display, it is about the
\* current question, and its answered field is the number of Answers in that
\* question's bucket.
C16_ProgressToHostsOnly ==
    \A n \in DOMAIN out :
        out[n].msg.type = "answers:progress" =>
            /\ IsHost(room, out[n].to)
            /\ ~IsTeam(room, out[n].to)
            /\ ~IsDisplay(room, out[n].to)
            /\ HasCurrent(room)
            /\ out[n].msg.questionId = CurrentQuestion(room).id
            /\ out[n].msg.answered = Len(Bucket(room, out[n].msg.questionId))

\* C16 witness: a team's answer was accepted in a room with a host, a team
\* and a display, and the one answers:progress went to the host.
C16_Witness ==
    /\ Len(room.host_connections) = 1
    /\ Len(room.team_connections) = 1
    /\ Len(room.display_connections) = 1
    /\ event.type = "team:answer"
    /\ Len(out) = 2
    /\ out[1].msg.type = "answer:accepted"
    /\ out[2].msg.type = "answers:progress"
    /\ out[2].to = room.host_connections[1]
    /\ out[2].msg.answered = 1

---------------------------------------------------------------------------
\* Catalogs that differ from the given one in the answer of one question.

Options == 0..3

Questions(catalog) ==
    UNION {{<<i, p>> : p \in DOMAIN catalog[i][2].questions} : i \in DOMAIN catalog}

WithAnswer(catalog, at, a) ==
    [catalog EXCEPT ![at[1]][2].questions[at[2]].answer = a]

\* The variants of the catalog in the answer of a question other than the
\* one at `spared` (<<0, 0>> spares none).
AnswerVariants(catalog, spared) ==
    {WithAnswer(catalog, at, a) : at \in Questions(catalog) \ {spared}, a \in Options}

\* The place in the catalog of the question host:reveal looks up,
\* quiz.questions[room.current_index]; <<0, 0>> when the lookup raises.
RevealedQuestion(catalog, r) ==
    IF ~Has(catalog, r.quiz_id) THEN <<0, 0>>
    ELSE LET i == CHOOSE j \in DOMAIN catalog : catalog[j][1] = r.quiz_id
             pos == ListIndex(Len(catalog[i][2].questions), r.current_index)
         IN  IF pos = 0 THEN <<0, 0>> ELSE <<i, pos>>

\* C17: the correct option of a question is not disclosed before reveal.
\* Two runs that start alike, receive the same messages and differ only in
\* the answer of one question stay in the same state and send the same
\* messages as long as every step is the same in both; so the claim is that
\* every step the server takes from a state is the step it takes from that
\* state under any catalog that differs in the answer of one question, for
\* host:set_quiz, host:start_question, host:lock and team:answer whatever
\* the question, and for a host:reveal whenever the question is not the one
\* the reveal looks up.
C17_AnswerNotDisclosed ==
    [][LET c == event'.conn
       IN  c \in Conns =>
           /\ \A data \in SetQuizMsgs :
                Handled(c, data.type) /\ host_set_quiz_in(quizzes, c, data) =>
                    \A other \in AnswerVariants(quizzes, <<0, 0>>) :
                        host_set_quiz_in(other, c, data)
           /\ \A data \in StartQuestionMsgs :
                Handled(c, data.type) /\ host_start_question_in(quizzes, c, data) =>
                    \A other \in AnswerVariants(quizzes, <<0, 0>>) :
                        host_start_question_in(other, c, data)
           /\ Handled(c, "host:lock") /\ host_lock_in(quizzes, c) =>
                \A other \in AnswerVariants(quizzes, <<0, 0>>) :
                    host_lock_in(other, c)
           /\ \A data \in AnswerMsgs :
                Handled(c, data.type) /\ team_answer_in(quizzes, c, data) =>
                    \A other \in AnswerVariants(quizzes, <<0, 0>>) :
                        team_answer_in(other, c, data)
           /\ Handled(c, "host:reveal") /\ host_reveal_in(quizzes, c) =>
                \A other \in AnswerVariants(quizzes, RevealedQuestion(quizzes, room)) :
                    host_reveal_in(other, c)
      ]_vars

\* A question was asked and a team answered it: the prompt went to the team,
\* the progress to the host, the question is not revealed, and the catalog
\* has variants in the answer of that question.
C17_Witness ==
    /\ HasCurrent(room)
    /\ room.state = "asking"
    /\ event.type = "team:answer"
    /\ \E n \in DOMAIN out : out[n].msg.type = "answers:progress"
    /\ HasAnswered(room, event.conn)
    /\ \E other \in AnswerVariants(quizzes, <<0, 0>>) :
            get_quiz_in(other, room.quiz_id).questions[room.current_index + 1].answer
                # CurrentQuestion(room).answer

---------------------------------------------------------------------------
\* The steps that call broadcast: host:set_brand and host:finish always, the
\* others when they reach their broadcast, which the payload type shows.
Broadcasts ==
    \/ event'.type \in {"host:set_brand", "host:finish"}
    \/ /\ out' # <<>>
       /\ out'[1].msg.type \in {"teams:update", "quiz:set", "question:prompt",
                                "question:locked", "results:summary"}

\* The messages of a step that its broadcast sent: all of them but the
\* team:joined reply that follows the broadcast of a team handshake.
BroadcastPart(sent) == SelectSeq(sent, LAMBDA e : e.msg.type # "team:joined")

\* What the handler wrote to the room before its broadcast is in the room
\* after the step.
ChangeKept ==
    /\ event'.type = "handshake" => IsTeam(room', event'.conn)
    /\ event'.type = "host:set_quiz" =>
            room'.quiz_id = out'[1].msg.quizId /\ room'.state = "lobby"
    /\ event'.type = "host:set_brand" => room'.venue_title = "Pub"
    /\ event'.type = "host:start_question" =>
            room'.state = "asking" /\ room'.question_end_at = out'[1].msg.questionEndAt
    /\ event'.type = "host:lock" => room'.state = "locked"
    /\ event'.type = "host:reveal" => room'.state = "revealed"
    /\ event'.type = "host:finish" => room'.state = "finished"

\* C18: broadcast delivery is isolated. A step that broadcasts sends the one
\* payload once to every host, team and display connection of the room, in
\* the order of the lists, whatever the connections that cannot receive;
\* the caller's connection stays open, no connection is closed by the step,
\* and the room keeps what the handler wrote.
C18_BroadcastIsolated ==
    [][event'.conn \in Conns /\ Broadcasts =>
          /\ LET sent == BroadcastPart(out')
             IN  /\ [n \in DOMAIN sent |-> sent[n].to] = Attached(room')
                 /\ \A n \in DOMAIN sent : sent[n].msg = sent[1].msg
          /\ conn'[event'.conn] = "open"
          /\ \A c \in Conns \ {event'.conn} : conn'[c] = conn[c]
          /\ ChangeKept
      ]_vars

\* A broadcast went first to a connection that an internal error had closed
\* and that is still in the room's lists, then to an open one.
C18_Witness ==
    /\ event.type = "host:finish"
    /\ room.state = "finished"
    /\ conn[event.conn] = "open"
    /\ \E n, m \in DOMAIN out :
            /\ n < m
            /\ conn[out[n].to] = "closed"
            /\ conn[out[m].to] = "open"
            /\ out[m].msg.type = "quiz:finished"

---------------------------------------------------------------------------
\* C19: the effect and the frame of host:set_quiz. With an id that resolves
\* in the catalog the room gets that quiz_id, current_index -1 and state
\* 'lobby', whatever its state was, and nothing else of the room changes;
\* with an id that does not resolve the sender is told 'quiz not found' and
\* the room is as it was. In both cases the answer ledger, the roster and
\* the scores are as they were, and no connection is closed.
C19_SetQuizFrame ==
    [][\A c \in Conns : \A data \in SetQuizMsgs :
          Handled(c, data.type) /\ host_set_quiz(c, data) =>
              /\ IF Has(quizzes, data.quizId)
                 THEN /\ room'.quiz_id = data.quizId
                      /\ room'.current_index = -1
                      /\ room'.state = "lobby"
                      /\ \A f \in DOMAIN room \ {"quiz_id", "current_index", "state"} :
                             room'[f] = room[f]
                 ELSE /\ room' = room
                      /\ out' = Send(c, [type |-> "error", message |-> "quiz not found"])
              /\ room'.answers = room.answers
              /\ room'.teams = room.teams
              /\ conn' = conn
      ]_vars

\* A quiz was selected while a question was revealed and scored: the room is
\* back in the lobby at index -1, with the bucket and the score still there.
C19_Witness ==
    /\ event.type = "host:set_quiz"
    /\ room.state = "lobby"
    /\ room.current_index = -1
    /\ room.quiz_id = 1
    /\ \E n \in DOMAIN out : out[n].msg.type = "quiz:set"
    /\ \E i \in DOMAIN room.answers : room.answers[i][2] # <<>>
    /\ \E i \in DOMAIN room.teams : room.teams[i][2].score > 0

---------------------------------------------------------------------------
\* C20: a successful host:start_question opens a fresh answer bucket. After
\* a host:start_question that sent the prompt the state is 'asking',
\* question_end_at is the time of the step plus the time limit used, and the
\* bucket of the question of the prompt exists and holds no Answer.
C20_StartOpensFreshBucket ==
    [][\A c \in Conns :
          /\ Handled(c, "host:start_question")
          /\ out' # <<>>
          /\ out'[1].msg.type = "question:prompt"
          => /\ room'.state = "asking"
             /\ room'.question_end_at = now + ttl'
             /\ HasCurrent(room')
             /\ out'[1].msg.questionId = CurrentQuestion(room').id
             /\ Has(room'.answers, CurrentQuestion(room').id)
             /\ Get(room'.answers, CurrentQuestion(room').id) = <<>>
      ]_vars

---------------------------------------------------------------------------
\* The first message names no room, a room that does not exist, or a role
\* that is none of host, team and display.
BadHandshake(init) ==
    \/ "roomId" \notin DOMAIN init
    \/ init.roomId \notin Registry
    \/ "role" \notin DOMAIN init
    \/ init.role \notin {"host", "team", "display"}

\* C21: a handshake with a missing roomId, an unresolvable room code or a
\* role outside {host, team, display} results in one error message to the
\* connection followed by its close, and registers nothing: the connection
\* lists and the roster of every room are as they were, as is the rest of
\* the room.
C21_BadHandshakeRefused ==
    [][\A c \in Conns : \A init \in InitMsgs :
          Handled(c, "handshake") /\ ws_handshake(c, init) /\ BadHandshake(init) =>
              /\ Len(out') = 1
              /\ out'[1].to = c
              /\ out'[1].msg.type = "error"
              /\ out'[1].msg.message \in {"missing roomId", "room not found", "invalid role"}
              /\ conn' = [conn EXCEPT ![c] = "closed"]
              /\ room' = room
              /\ rooms' = rooms
      ]_vars

\* A handshake for a room code that does not exist was refused while the
\* room had a host and a team: the refused connection is closed and in none
\* of the room's lists.
C21_Witness ==
    /\ event.type = "handshake"
    /\ conn[event.conn] = "closed"
    /\ out = Send(event.conn, [type |-> "error", message |-> "room not found"])
    /\ Len(room.host_connections) = 1
    /\ Len(room.teams) = 1
    /\ event.conn \notin {Attached(room)[i] : i \in DOMAIN Attached(room)}

---------------------------------------------------------------------------
\* The rows of the input that are well formed, in their order.
WellFormed(rows) == SelectSeq(rows, LAMBDA r : ~MalformedRow(r))

\* C22: a reload is atomic and leaves no partial catalog. After
\* load_quizzes on rows of which one is malformed, the catalog is the
\* catalog of before the call, or the catalog of all well-formed rows of the
\* input.
C22_ReloadAtomic ==
    [][\A rows \in ReloadInputs :
          /\ load_quizzes(rows)
          /\ \E i \in DOMAIN rows : MalformedRow(rows[i])
          => \/ quizzes' = quizzes
             \/ quizzes' = LoadRows(<<>>, WellFormed(rows))
      ]_vars

---------------------------------------------------------------------------
\* The step adds an Answer to the ledger.
Records ==
    \E qid \in Keys(room'.answers) : Len(Bucket(room', qid)) > Len(Bucket(room, qid))

\* C23: a host:reveal (or host:lock) and a team:answer on the same question,
\* in either order. A step is one handler up to its first await, which
\* comes after every write of team:answer, host:lock and host:reveal to the
\* room; so the two orders are the two orders of the steps. An Answer is
\* recorded only while the state is 'asking' and the deadline has not
\* passed; a host:reveal handled while the question is being asked counts
\* every Answer recorded before it and ends the asking, as a host:lock
\* does, so that a team:answer handled after it is rejected as late.
C23_AnswerBeforeOrLate ==
    [][\A c \in Conns :
          /\ Handled(c, "team:answer") /\ Records =>
                 room.state = "asking" /\ now <= room.question_end_at
          /\ Handled(c, "team:answer") /\ HasCurrent(room)
                /\ room.state \in {"locked", "revealed"} =>
                 out' = Rejected(c, "late") /\ room'.answers = room.answers
          /\ Handled(c, "host:lock") /\ HasCurrent(room) /\ room.state = "asking" =>
                 room'.state = "locked"
          /\ Handled(c, "host:reveal") /\ HasCurrent(room) /\ room.state = "asking" =>
                 /\ room'.state = "revealed"
                 /\ out' # <<>>
                 /\ out'[1].msg.type = "results:summary"
                 /\ out'[1].msg.counts[1] + out'[1].msg.counts[2] + out'[1].msg.counts[3]
                        + out'[1].msg.counts[4]
                        = Len(Bucket(room, CurrentQuestion(room).id))
      ]_vars

---------------------------------------------------------------------------
\* C24: each inbound message is handled atomically end-to-end, including
\* its broadcasts. While a handler has sends of its fan-out to make, no
\* handler of another connection has run since it wrote to the room; and
\* every connection is sent the messages in the order of the handler steps
\* that wrote the state they announce, so none is sent the results:summary
\* of a reveal before the question:prompt of the start that came before
\* that reveal.
C24_HandledAtomically ==
    /\ \A c \in Conns : sending[c] # <<>> => sending[c][1].at = steps
    /\ \A i, j \in DOMAIN delivered :
            i < j /\ delivered[i].to = delivered[j].to => delivered[i].at <= delivered[j].at

---------------------------------------------------------------------------
\* C25: after ws() has closed a connection because of an uncaught failure
\* in its message loop, the connection is in none of the room's
\* host_connections, display_connections and team_connections, and no team
\* of the roster is the team of that connection. (A connection refused at
\* the handshake is closed too, and was never in the lists.)
C25_ClosedIsRemoved ==
    \A c \in Conns :
        conn[c] = "closed" =>
            /\ ~IsHost(room, c)
            /\ ~IsDisplay(room, c)
            /\ ~IsTeam(room, c)
            /\ \A i \in DOMAIN room.teams :
                    Has(room.team_connections, room.teams[i][1]) =>
                        Get(room.team_connections, room.teams[i][1]) # c

---------------------------------------------------------------------------
\* C26: in every reachable state the keys of room.teams are the keys of
\* room.team_connections, no connection is under two team ids, and the
\* connection of every team is a live one, a connection whose ws() is in
\* its message loop.
C26_TeamsMatchConnections ==
    /\ Keys(room.teams) = Keys(room.team_connections)
    /\ \A i, j \in DOMAIN room.team_connections :
            i # j => room.team_connections[i][2] # room.team_connections[j][2]
    /\ \A i \in DOMAIN room.team_connections :
            conn[room.team_connections[i][2]] = "open"

====
